---- MODULE Spec2Model ----
(***************************************************************************)
(* PretextTaskTrainer (src/src/trainer/pretext_task_trainer.py) as a state *)
(* machine: construction of the trainer, then train() with its epoch loop  *)
(* (training batches, validation, classification evaluation, learning-rate *)
(* scheduling) and the final checkpoint writes.                            *)
(*                                                                         *)
(* Numbers: losses are in tenths (12 is 1.2), accuracies in percent.       *)
(* Python's True/False are the integers 1/0, as they are under sum().      *)
(* torch, the data wrapper, the extractor and the evaluator are outside    *)
(* the repository: they are modelled by the interface the trainer calls    *)
(* (what a forward step or an evaluation returns is an input of the step). *)
(***************************************************************************)
EXTENDS Integers, Sequences, FiniteSets, TLC

VARIABLES
    config,             \* the configuration mapping handed to __init__
    len_train_loader,   \* batches per epoch the training loader yields
    len_valid_loader,   \* batches the validation loader yields
    pc,                 \* position of the control flow
    error,              \* exception that ended the program, "none" otherwise
    self,               \* the trainer's fields set by __init__
    training,           \* training-mode flag of the model and of the head's modules
    ops,                \* calls made per training batch: zero_grad, _step, backward, optimizer.step
    scheduler,          \* CosineAnnealingLR: T_max and last_epoch
    run,                \* train()'s locals: the counters and the best-seen records
    vstate,             \* _validate's locals
    valid,              \* what train() received from _validate
    fs,                 \* the checkpoint folder: files and their contents
    scalars,            \* the metrics writer's series, per tag: entries, last step, last value
    evaluation,         \* arguments of the last LogisticRegressionEvaluator.run_evaluation call
    phases,             \* phases begun so far, in order, as <<phase, epoch>>
    valid_history,      \* validation losses train() compared so far, as <<epoch, loss>>
    acc_history,        \* accuracies measured so far, as <<epoch, accuracy>>
    saves,              \* checkpoint writes so far, in order, as <<file, phase, epoch>>
    runs_dir,           \* what ./runs/<fine_tune_from>/checkpoints holds when train() starts
    setup,              \* what train() built before the loop: data loaders, model, its weights
    last_batch,         \* the training loop's locals of the last batch: _step's triple and loss
    sample,             \* a batch handed to _step: batch size, tiles, arg-max indices, labels
    result              \* what _step made of the sample

vars == <<config, len_train_loader, len_valid_loader, pc, error, self, training, ops,
          scheduler, run, vstate, valid, fs, scalars, evaluation, phases,
          valid_history, acc_history, saves, runs_dir, setup, last_batch, sample, result>>

----------------------------------------------------------------------------
(* Bounds of the model *)

MaxEpochs == 3
MaxTrainBatches == 2
MaxValidBatches == 2
MaxExtraEpochs == 1
MaxBatchSize == 2

(* Program constants *)

h_size == 2048
n_jigsaw == 9
WarmupEpoch == 10
InitialBestAcc == -1

\* np.inf, and a finite number x, as values that compare like the floats do
PosInf == <<>>
Fin(x) == <<x>>
Greater(a, b) == IF a = PosInf THEN b # PosInf ELSE (b # PosInf /\ a[1] > b[1])

\* A pretext flag as YAML can give it: False, True, or an integer that is no bool
FlagValues == {-1, 0, 1}
Truthy(v) == v # 0

\* What one forward step returns: <<contrastive loss, pretext loss, pretext accuracy>>
StepOutcomes == {<<12, 7, 50>>, <<9, 5, 70>>, <<10, 6, 60>>}
\* What one classification evaluation returns
AccValues == {50, 70}

Tags == {"train/loss_pretext", "train/acc_pretext", "train/loss_contrastive",
         "valid/loss_pretext", "valid/acc_pretext", "valid/loss_contrastive",
         "test/classification_accuracy", "cosine_lr_decay"}

Modules == {"model", "fc1", "fc2", "classification_fc"}

NoHead == [fc1 |-> <<0, 0>>, fc2 |-> <<0, 0>>, classification_fc |-> <<0, 0>>]

JigsawHead(num_jigsaw) ==
    [fc1 |-> <<h_size, 512>>,
     fc2 |-> <<n_jigsaw * 512, 4096>>,
     classification_fc |-> <<4096, num_jigsaw>>]

RotationHead ==
    [fc1 |-> <<h_size, 512>>,
     fc2 |-> <<512, 128>>,
     classification_fc |-> <<128, 4>>]

\* A slip of line 41: only a double selection is rejected
PretextSelectionRejected_OnlyBoth(j, r) == j + r > 1

\* line 41: the test that rejects a pretext selection
PretextSelectionRejected(j, r) == (j + r > 0) \/ (j + r = 0)

\* lines 52-91: the head __init__ builds; the rotation block runs after the jigsaw one
BuildHead(j, r, num_jigsaw) ==
    IF Truthy(r) THEN RotationHead
    ELSE IF Truthy(j) THEN JigsawHead(num_jigsaw)
    ELSE NoHead

\* line 96
NamePostfix(j) == IF Truthy(j) THEN "jigsaw" ELSE "rotation"

\* lines 155 and 178: the head's checkpoint files carry the mode's name
HeadFile(postfix) ==
    IF postfix = "jigsaw" THEN "model_jigsaw.pth" ELSE "model_rotation.pth"

HeadFinalFile(postfix) ==
    IF postfix = "jigsaw" THEN "model_jigsaw_final.pth" ELSE "model_rotation_final.pth"

Files == {"config.yaml", "model.pth", "model_final.pth",
          "model_jigsaw.pth", "model_rotation.pth",
          "model_jigsaw_final.pth", "model_rotation_final.pth"}

\* A file's content: what was serialized ("model", "head" or "config") and, for a
\* state dict, the weights it holds, named by the optimizer updates that made them
Absent == [exists |-> FALSE, what |-> "", weights |-> 0]
Content(what, w) == [exists |-> TRUE, what |-> what, weights |-> w]

\* A float that a division produced, kept exact as <<numerator, denominator>>
Ratio(n, d) == <<n, d>>
RatioEquals(q, x) == q[1] = x * q[2]

\* line 33
EMBEDDINGS_MODELS ==
    {"resnet18", "resnet50", "scatsimclr8", "scatsimclr12", "scatsimclr16", "scatsimclr30"}

\* A base model name outside the list
OtherModels == {"vgg16"}

\* lines 309-311: the checkpoints folder of the run to fine-tune from is missing,
\* exists without model_final.pth, or holds model_final.pth
RunsDirStates == {"missing", "empty", "has_final"}

\* Tile counts of a pretext tensor [B, T, C, H, W]
TileCounts == {1, 8, 9, 10}

\* Pretext labels, and the arg-max indices of the logits
Labels == 0..3

\* The tiles per sample the dataset wrapper yields in each mode (T of the batch
\* sample: 9 for jigsaw, the singleton axis for rotation)
WrapperTiles(j, r) == IF Truthy(j) THEN 9 ELSE 1

\* Before train(): nothing built
NoSetup == [wrapper |-> FALSE, model |-> "", res_blocks |-> 0, weights |-> ""]

\* No batch went through the training loop yet
NoStep == [loss_contrastive |-> 0, loss_pretext |-> 0, acc_pretext |-> 0, loss |-> 0]

NoSample == [B |-> 0, T |-> 0, pred |-> <<>>, y |-> <<>>]
NoResult == [error |-> "", logits |-> <<>>, n_pred |-> 0, acc |-> Ratio(0, 1)]

\* _validate's locals before the call and after the return
NoFrame == [loss_contrastive_total |-> Ratio(0, 1), loss_pretext_total |-> Ratio(0, 1),
            acc_pretext_total |-> Ratio(0, 1), counter |-> 0,
            loss_contrastive |-> 0, loss_pretext |-> 0, acc_pretext |-> 0]

----------------------------------------------------------------------------
(* Initial states *)

Configs ==
    [jigsaw : FlagValues, rotation : FlagValues, num_jigsaw : {35},
     batch_size : {2}, base_model : {"resnet18"},
     epochs : 0..MaxEpochs,
     validate_every_n_epochs : 1..2,
     eval_every_n_epochs : 1..2,
     log_every_n_steps : {2}]

\* Runs that reach the end of the warmup window; the periods are chosen so that
\* validation and evaluation still happen within the run.
LongConfigs ==
    [jigsaw : {-1}, rotation : {0}, num_jigsaw : {35},
     batch_size : {2}, base_model : {"resnet18"},
     epochs : (WarmupEpoch - 2)..(WarmupEpoch + MaxExtraEpochs),
     validate_every_n_epochs : {4},
     eval_every_n_epochs : {5},
     log_every_n_steps : {2}]

\* Short runs under every base model name and every state of the runs folder
SetupConfigs ==
    [jigsaw : FlagValues, rotation : FlagValues, num_jigsaw : {35},
     batch_size : {2}, base_model : EMBEDDINGS_MODELS \cup OtherModels,
     epochs : {2},
     validate_every_n_epochs : {2},
     eval_every_n_epochs : {2},
     log_every_n_steps : {2}]

\* What no part of the program has touched yet
NothingRunYet ==
    /\ setup = NoSetup
    /\ last_batch = NoStep
    /\ result = NoResult
    /\ training = [m \in Modules |-> TRUE]
    /\ ops = [zero_grad |-> 0, step |-> 0, backward |-> 0, optimizer_step |-> 0]
    /\ scheduler = [T_max |-> 0, last_epoch |-> 0]
    /\ run = [epoch_counter |-> 0, i |-> 0, n_iter |-> 0, valid_n_iter |-> 0,
              test_n_iter |-> 0, best_valid_loss |-> PosInf, best_acc |-> InitialBestAcc]
    /\ vstate = NoFrame
    /\ valid = <<0, 0, 0>>
    /\ fs = [folder |-> FALSE, files |-> [f \in Files |-> Absent]]
    /\ scalars = [t \in Tags |-> [n |-> 0, step |-> 0, value |-> 0]]
    /\ evaluation = <<>>
    /\ phases = <<>>
    /\ valid_history = <<>>
    /\ acc_history = <<>>
    /\ saves = <<>>

InitWith(cfgs, trainLens, validLens, runsDirs) ==
    /\ config \in cfgs
    /\ runs_dir \in runsDirs
    /\ len_train_loader \in trainLens
    /\ len_valid_loader \in validLens
    /\ pc = "new"
    /\ error = "none"
    /\ self = [jigsaw |-> 0, rotation |-> 0, writer |-> FALSE, criterion |-> FALSE,
               head |-> NoHead, classification_loss |-> FALSE, loss_lambda |-> 0,
               name_postfix |-> ""]
    /\ sample = NoSample
    /\ NothingRunYet

Init == InitWith(Configs, 0..MaxTrainBatches, 0..MaxValidBatches, {"missing"})

LongInit == InitWith(LongConfigs, 1..2, {1}, {"missing"})

SetupInit == InitWith(SetupConfigs, {1}, {1}, RunsDirStates)

----------------------------------------------------------------------------
(* __init__, lines 35-96 *)

\* lines 44-96: the fields of a trainer whose construction went through
Constructed(j, r, num_jigsaw) ==
    [jigsaw |-> j, rotation |-> r, writer |-> TRUE, criterion |-> TRUE,
     head |-> BuildHead(j, r, num_jigsaw),
     classification_loss |-> TRUE, loss_lambda |-> 3,
     name_postfix |-> NamePostfix(j)]

Construct ==
    /\ pc = "new"
    /\ LET j == config.jigsaw
           r == config.rotation
       IN IF PretextSelectionRejected(j, r)
          THEN /\ pc' = "ctor_failed"
               /\ error' = "ValueError"
               /\ self' = [self EXCEPT !.jigsaw = j, !.rotation = r]
          ELSE /\ pc' = "constructed"
               /\ error' = error
               /\ self' = Constructed(j, r, config.num_jigsaw)
    /\ UNCHANGED <<runs_dir, setup, last_batch, sample, result, config, len_train_loader, len_valid_loader, training, ops, scheduler,
                   run, vstate, valid, fs, scalars, evaluation, phases,
                   valid_history, acc_history, saves>>

----------------------------------------------------------------------------
(* train(), lines 98-123: loaders, model, optimizer, scheduler, checkpoint folder. *)
(* The optimizer is taken to accept the parameter list of lines 109-110 as it   *)
(* is handed over (list(self._fc1) lists the head's layers, not their tensors). *)

\* lines 26-28
save_config_file(f) ==
    [folder |-> TRUE, files |-> [f.files EXCEPT !["config.yaml"] = Content("config", 0)]]

\* torch.save of a state dict to a file of the checkpoint folder
TorchSave(f, file, what, w) ==
    [f EXCEPT !.files[file] = Content(what, w)]

\* line 296
SupportedModel(name) == name \in EMBEDDINGS_MODELS

\* lines 299-306: the class of the model and, for ScatSimCLR, int(model_name[10:])
Architecture(name) == IF name \in {"resnet18", "resnet50"} THEN "ResNetSimCLR" ELSE "ScatSimCLR"
ResBlocks(name) ==
    CASE name = "scatsimclr8" -> 8
      [] name = "scatsimclr12" -> 12
      [] name = "scatsimclr16" -> 16
      [] name = "scatsimclr30" -> 30
      [] OTHER -> 0

\* _load_weights, lines 308-316: the folder is looked for, then the file is loaded
load_weights(dir) ==
    IF dir = "missing" THEN [error |-> "none", weights |-> "random"]
    ELSE IF dir = "has_final" THEN [error |-> "none", weights |-> "pretrained"]
    ELSE [error |-> "FileNotFoundError", weights |-> "random"]

TrainSetup ==
    /\ pc = "constructed"
    /\ IF ~SupportedModel(config.base_model)
       THEN /\ pc' = "failed"
            /\ error' = "ValueError"
            /\ setup' = [NoSetup EXCEPT !.wrapper = TRUE]
            /\ UNCHANGED <<scheduler, fs, saves, run>>
       ELSE LET loaded == load_weights(runs_dir)
                built == [wrapper |-> TRUE, model |-> Architecture(config.base_model),
                          res_blocks |-> ResBlocks(config.base_model),
                          weights |-> loaded.weights]
            IN /\ setup' = built
               /\ IF loaded.error # "none"
                  THEN /\ pc' = "failed"
                       /\ error' = loaded.error
                       /\ UNCHANGED <<scheduler, fs, saves, run>>
                  ELSE /\ pc' = "epoch"
                       /\ error' = error
                       /\ scheduler' = [T_max |-> len_train_loader, last_epoch |-> 0]
                       /\ fs' = save_config_file(fs)
                       /\ saves' = Append(saves, <<"config.yaml", "SETUP", 0>>)
                       /\ run' = [epoch_counter |-> 0, i |-> 0, n_iter |-> 0,
                                  valid_n_iter |-> 0, test_n_iter |-> 0,
                                  best_valid_loss |-> PosInf, best_acc |-> InitialBestAcc]
    /\ UNCHANGED <<runs_dir, last_batch, sample, result, config, len_train_loader,
                   len_valid_loader, self, training, ops,
                   vstate, valid, scalars, evaluation, phases, valid_history, acc_history>>

(* line 125: the head of the epoch loop *)

EpochHead ==
    /\ pc = "epoch"
    /\ IF run.epoch_counter < config.epochs
       THEN /\ run' = [run EXCEPT !.epoch_counter = @ + 1, !.i = 0]
            /\ phases' = Append(phases, <<"TRAIN_EPOCH", run.epoch_counter + 1>>)
            /\ pc' = IF len_train_loader = 0 THEN "validation" ELSE "train_batch"
       ELSE /\ pc' = "finalize"
            /\ UNCHANGED <<run, phases>>
    /\ UNCHANGED <<runs_dir, setup, last_batch, sample, result, config, len_train_loader, len_valid_loader, error, self, training, ops,
                   scheduler, vstate, valid, fs, scalars, evaluation,
                   valid_history, acc_history, saves>>

(* lines 241-249 *)
log_to_tensorboard(sc, outcome, global_count, mode) ==
    [t \in Tags |->
        IF t = mode \o "/loss_pretext" THEN [n |-> sc[t].n + 1, step |-> global_count, value |-> outcome[2]]
        ELSE IF t = mode \o "/acc_pretext" THEN [n |-> sc[t].n + 1, step |-> global_count, value |-> outcome[3]]
        ELSE IF t = mode \o "/loss_contrastive" THEN [n |-> sc[t].n + 1, step |-> global_count, value |-> outcome[1]]
        ELSE sc[t]]

add_scalar(sc, tag, value, step) ==
    [sc EXCEPT ![tag] = [n |-> @.n + 1, step |-> step, value |-> value]]

(* _step, lines 251-292, on the shapes of its tensors: a shape is the tuple *)
(* of a tensor's axis sizes. The model returns features [N, h_size] for N   *)
(* images.                                                                  *)

\* torch's squeeze(): every axis of size 1 is dropped
Squeeze(shape) == SelectSeq(shape, LAMBDA d : d # 1)

\* nn.Linear as <<in, out>>: it applies to a tensor whose last axis is `in`
LinearFits(layer, shape) == shape # <<>> /\ shape[Len(shape)] = layer[1]
Linear(layer, shape) == [shape EXCEPT ![Len(shape)] = layer[2]]

Raised(e) == [error |-> e, shape |-> <<>>]
Tensor(shape) == [error |-> "none", shape |-> shape]

\* lines 285-287: the rotation branch
RotationFeatures(s, pretext_h) ==
    LET h_ == Squeeze(pretext_h)
    IN IF ~LinearFits(s.head.fc1, h_) THEN Raised("RuntimeError")
       ELSE IF ~LinearFits(s.head.fc2, Linear(s.head.fc1, h_)) THEN Raised("RuntimeError")
       ELSE Tensor(Linear(s.head.fc2, Linear(s.head.fc1, h_)))

\* lines 272-282: the jigsaw branch; the loop reads tiles 0..n_jigsaw-1 of the
\* T tiles, and the concatenation holds n_jigsaw tile representations
JigsawFeatures(s, B, T) ==
    IF T < n_jigsaw THEN Raised("IndexError")
    ELSE IF ~LinearFits(s.head.fc1, <<B, h_size>>) THEN Raised("RuntimeError")
    ELSE LET z == Linear(s.head.fc1, <<B, h_size>>)
             h_ == <<B, n_jigsaw * z[2]>>
         IN IF ~LinearFits(s.head.fc2, h_) THEN Raised("RuntimeError")
            ELSE Tensor(Linear(s.head.fc2, h_))

\* lines 267-287: h_ before the classification layer
PretextFeatures(s, B, T) ==
    IF Truthy(s.jigsaw) THEN JigsawFeatures(s, B, T)
    ELSE IF Truthy(s.rotation) THEN RotationFeatures(s, <<B * T, h_size>>)
    ELSE Raised("UnboundLocalError")

RECURSIVE Matches(_, _)
\* torch.sum(pred[1] == y_), for index and label vectors of one length
Matches(pred, y) ==
    IF pred = <<>> THEN 0
    ELSE (IF Head(pred) = Head(y) THEN 1 ELSE 0) + Matches(Tail(pred), Tail(y))

\* A slip of line 291: the predictions that differ from the label are counted
Accuracy_Mismatches(pred, y) == Ratio(Len(y) - Matches(pred, y), Len(y))

\* line 291
Accuracy(pred, y) == Ratio(Matches(pred, y), Len(y))

\* lines 289-292: classification, arg-max, accuracy and cross-entropy; pred holds
\* the arg-max index of each row of the logits, y the labels after view(-1)
StepResult(s, B, T, pred, y) ==
    LET h_ == PretextFeatures(s, B, T)
    IN IF h_.error # "none" THEN [NoResult EXCEPT !.error = h_.error]
       ELSE IF ~LinearFits(s.head.classification_fc, h_.shape)
            THEN [NoResult EXCEPT !.error = "RuntimeError"]
       ELSE LET logits == Linear(s.head.classification_fc, h_.shape)
            IN IF Len(logits) < 2 THEN [NoResult EXCEPT !.error = "IndexError"]
               ELSE IF ~(logits[1] = Len(y) \/ logits[1] = 1 \/ Len(y) = 1)
                    THEN [NoResult EXCEPT !.error = "RuntimeError"]
               ELSE IF logits[1] # Len(y) THEN [NoResult EXCEPT !.error = "ValueError"]
               ELSE [error |-> "none", logits |-> logits, n_pred |-> logits[1],
                     acc |-> Accuracy(pred, y)]

\* The error of _step, if any, on a batch as the data loaders yield it
LoaderStepError(s) ==
    LET B == config.batch_size
        any == [k \in 1..B |-> 0]
    IN StepResult(s, B, WrapperTiles(config.jigsaw, config.rotation), any, any).error

\* A slip of line 136: the pretext loss enters unweighted
CombinedLoss_Unweighted(loss_contrastive, loss_pretext, lambda) ==
    10 * loss_contrastive + 10 * loss_pretext

\* line 136, in hundredths: lambda is in tenths, as the losses are
CombinedLoss(loss_contrastive, loss_pretext, lambda) ==
    10 * loss_contrastive + lambda * loss_pretext

(* lines 128-140: one training batch *)

TrainBatch ==
    /\ pc = "train_batch"
    /\ run.i < len_train_loader
    /\ IF LoaderStepError(self) # "none"
       THEN /\ pc' = "failed"
            /\ error' = LoaderStepError(self)
            /\ ops' = [ops EXCEPT !.zero_grad = @ + 1, !.step = @ + 1]
            /\ UNCHANGED <<scalars, run, last_batch>>
       ELSE /\ \E outcome \in StepOutcomes :
                 /\ scalars' = IF run.i % config.log_every_n_steps = 0
                               THEN log_to_tensorboard(scalars, outcome, run.n_iter, "train")
                               ELSE scalars
                 /\ last_batch' = [loss_contrastive |-> outcome[1],
                                   loss_pretext |-> outcome[2],
                                   acc_pretext |-> outcome[3],
                                   loss |-> CombinedLoss(outcome[1], outcome[2],
                                                         self.loss_lambda)]
            /\ ops' = [zero_grad |-> ops.zero_grad + 1, step |-> ops.step + 1,
                       backward |-> ops.backward + 1,
                       optimizer_step |-> ops.optimizer_step + 1]
            /\ run' = [run EXCEPT !.n_iter = @ + 1, !.i = @ + 1]
            /\ pc' = IF run.i + 1 < len_train_loader THEN "train_batch" ELSE "validation"
            /\ error' = error
    /\ UNCHANGED <<runs_dir, setup, sample, result, config, len_train_loader,
                   len_valid_loader, self, training,
                   scheduler, vstate, valid, fs, evaluation, phases,
                   valid_history, acc_history, saves>>

(* line 143, and _validate, lines 180-212 *)

\* A slip of line 143: the validation period counted from the first epoch
ValidateDue_FromFirst(epoch) == (epoch - 1) % config.validate_every_n_epochs = 0

ValidateDue(epoch) == epoch % config.validate_every_n_epochs = 0

ValidationSkip ==
    /\ pc = "validation"
    /\ ~ValidateDue(run.epoch_counter)
    /\ pc' = "classification"
    /\ UNCHANGED <<runs_dir, setup, last_batch, sample, result, config, len_train_loader, len_valid_loader, error, self, training, ops,
                   scheduler, run, vstate, valid, fs, scalars, evaluation, phases,
                   valid_history, acc_history, saves>>

\* lines 185-193: the modules are frozen and the accumulators start at zero
ValidateEnter ==
    /\ pc = "validation"
    /\ ValidateDue(run.epoch_counter)
    /\ phases' = Append(phases, <<"VALIDATE", run.epoch_counter>>)
    /\ training' = [m \in Modules |-> FALSE]
    /\ vstate' = NoFrame
    /\ pc' = IF len_valid_loader = 0 THEN "valid_divide" ELSE "valid_batch"
    /\ UNCHANGED <<runs_dir, setup, last_batch, sample, result, config, len_train_loader, len_valid_loader, error, self, ops,
                   scheduler, run, valid, fs, scalars, evaluation,
                   valid_history, acc_history, saves>>

\* lines 195-201: one validation batch
ValidateBatch ==
    /\ pc = "valid_batch"
    /\ vstate.counter < len_valid_loader
    /\ IF LoaderStepError(self) # "none"
       THEN /\ pc' = "failed"
            /\ error' = LoaderStepError(self)
            /\ UNCHANGED vstate
       ELSE /\ \E outcome \in StepOutcomes :
                 vstate' = [loss_contrastive_total |-> Ratio(vstate.loss_contrastive_total[1] + outcome[1], 1),
                            loss_pretext_total |-> Ratio(vstate.loss_pretext_total[1] + outcome[2], 1),
                            acc_pretext_total |-> Ratio(vstate.acc_pretext_total[1] + outcome[3], 1),
                            counter |-> vstate.counter + 1,
                            loss_contrastive |-> outcome[1],
                            loss_pretext |-> outcome[2],
                            acc_pretext |-> outcome[3]]
            /\ pc' = IF vstate.counter + 1 < len_valid_loader THEN "valid_batch" ELSE "valid_divide"
            /\ error' = error
    /\ UNCHANGED <<runs_dir, setup, last_batch, sample, result, config, len_train_loader,
                   len_valid_loader, self, training, ops,
                   scheduler, run, valid, fs, scalars, evaluation, phases,
                   valid_history, acc_history, saves>>

\* line 212: the triple _validate returns
ValidateResult(v) == <<v.loss_contrastive, v.loss_pretext, v.acc_pretext>>

\* lines 208-211: the modules _validate switches back to training mode
Unfrozen == {"model", "fc1", "fc2"}

\* lines 203-212: the division by the batch count, the unfreezing and the return
ValidateReturn ==
    /\ pc = "valid_divide"
    /\ IF vstate.counter = 0
       THEN /\ error' = "ZeroDivisionError"
            /\ pc' = "failed"
            /\ UNCHANGED <<vstate, training, valid>>
       ELSE /\ vstate' = [vstate EXCEPT
                            !.loss_contrastive_total = Ratio(@[1], vstate.counter),
                            !.loss_pretext_total = Ratio(@[1], vstate.counter),
                            !.acc_pretext_total = Ratio(@[1], vstate.counter)]
            /\ training' = [m \in Modules |-> IF m \in Unfrozen THEN TRUE ELSE training[m]]
            /\ valid' = ValidateResult(vstate')
            /\ pc' = "valid_returned"
            /\ error' = error
    /\ UNCHANGED <<runs_dir, setup, last_batch, sample, result, config, len_train_loader, len_valid_loader, self, ops,
                   scheduler, run, fs, scalars, evaluation, phases,
                   valid_history, acc_history, saves>>

\* A slip of line 150: the comparison is turned around, a higher loss is kept
ImprovesLoss_Flipped(best, loss) == Greater(Fin(loss), best)

\* A slip of line 150: an equal loss counts as an improvement
ImprovesLoss_NotStrict(best, loss) == ~Greater(Fin(loss), best)

\* line 150
ImprovesLoss(best, loss) == Greater(best, Fin(loss))

\* lines 144-155: train() logs the triple, then saves the best model
AfterValidate ==
    /\ pc = "valid_returned"
    /\ scalars' = log_to_tensorboard(scalars, valid, run.valid_n_iter, "valid")
    /\ valid_history' = Append(valid_history, <<run.epoch_counter, valid[1]>>)
    /\ IF ImprovesLoss(run.best_valid_loss, valid[1])
       THEN /\ run' = [run EXCEPT !.valid_n_iter = @ + 1, !.best_valid_loss = Fin(valid[1])]
            /\ fs' = TorchSave(TorchSave(fs, "model.pth", "model", ops.optimizer_step),
                               HeadFile(self.name_postfix), "head", ops.optimizer_step)
            /\ saves' = saves \o <<(<<"model.pth", "VALIDATE", run.epoch_counter>>),
                                   (<<HeadFile(self.name_postfix), "VALIDATE", run.epoch_counter>>)>>
       ELSE /\ run' = [run EXCEPT !.valid_n_iter = @ + 1]
            /\ UNCHANGED <<fs, saves>>
    /\ vstate' = NoFrame
    /\ pc' = "classification"
    /\ UNCHANGED <<runs_dir, setup, last_batch, sample, result, config, len_train_loader, len_valid_loader, error, self, training, ops,
                   scheduler, valid, evaluation, phases, acc_history>>

(* line 158, and _test_classification, lines 214-239 *)

EvalDue(epoch) == epoch % config.eval_every_n_epochs = 0

ClassificationSkip ==
    /\ pc = "classification"
    /\ ~EvalDue(run.epoch_counter)
    /\ pc' = "schedule"
    /\ UNCHANGED <<runs_dir, setup, last_batch, sample, result, config, len_train_loader, len_valid_loader, error, self, training, ops,
                   scheduler, run, vstate, valid, fs, scalars, evaluation, phases,
                   valid_history, acc_history, saves>>

\* line 238: the arguments handed to run_evaluation(train_data, train_labels, test_data, test_labels)
EvaluationArguments == <<"test_data", "train_labels", "test_data", "test_labels">>

\* A slip of line 161: an equal accuracy counts as an improvement
ImprovesAcc_NotStrict(best, acc) == acc >= best

\* line 161
ImprovesAcc(best, acc) == acc > best

\* lines 159-166, with the call of _test_classification
TestClassification ==
    /\ pc = "classification"
    /\ EvalDue(run.epoch_counter)
    /\ phases' = Append(phases, <<"EVAL_CLASSIFICATION", run.epoch_counter>>)
    /\ training' = [training EXCEPT !["model"] = FALSE]
    /\ evaluation' = EvaluationArguments
    /\ \E acc \in AccValues :
          /\ acc_history' = Append(acc_history, <<run.epoch_counter, acc>>)
          /\ scalars' = add_scalar(scalars, "test/classification_accuracy", acc, run.test_n_iter)
          /\ IF ImprovesAcc(run.best_acc, acc)
             THEN /\ run' = [run EXCEPT !.test_n_iter = @ + 1, !.best_acc = acc]
                  /\ fs' = TorchSave(fs, "model.pth", "model", ops.optimizer_step)
                  /\ saves' = Append(saves, <<"model.pth", "EVAL_CLASSIFICATION", run.epoch_counter>>)
             ELSE /\ run' = [run EXCEPT !.test_n_iter = @ + 1]
                  /\ UNCHANGED <<fs, saves>>
    /\ pc' = "schedule"
    /\ UNCHANGED <<runs_dir, setup, last_batch, sample, result, config, len_train_loader, len_valid_loader, error, self, ops,
                   scheduler, vstate, valid, valid_history>>

(* lines 168-172 *)

\* A slip of line 170: the warmup window is one epoch longer
WarmupOver_Strict(epoch) == epoch > WarmupEpoch

\* line 170
WarmupOver(epoch) == epoch >= WarmupEpoch

\* scheduler.step()
SchedulerStep(sch) == [sch EXCEPT !.last_epoch = @ + 1]

\* scheduler.get_lr()[0]: the cosine schedule's value is a function of last_epoch and
\* T_max alone; it is recorded by the last_epoch it is taken at
GetLr(sch) == sch.last_epoch

\* A slip of lines 170-172: the learning rate logged only when the scheduler advances
ScheduleLR_LogInsideIf ==
    /\ pc = "schedule"
    /\ phases' = Append(phases, <<"SCHEDULE_LR", run.epoch_counter>>)
    /\ scheduler' = IF WarmupOver(run.epoch_counter) THEN SchedulerStep(scheduler) ELSE scheduler
    /\ scalars' = IF WarmupOver(run.epoch_counter)
                  THEN add_scalar(scalars, "cosine_lr_decay", GetLr(scheduler'), run.n_iter)
                  ELSE scalars
    /\ pc' = "epoch"
    /\ UNCHANGED <<runs_dir, setup, last_batch, sample, result, config, len_train_loader, len_valid_loader, error, self, training, ops,
                   run, vstate, valid, fs, evaluation, valid_history, acc_history, saves>>

ScheduleLR ==
    /\ pc = "schedule"
    /\ phases' = Append(phases, <<"SCHEDULE_LR", run.epoch_counter>>)
    /\ scheduler' = IF WarmupOver(run.epoch_counter) THEN SchedulerStep(scheduler) ELSE scheduler
    /\ scalars' = add_scalar(scalars, "cosine_lr_decay", GetLr(scheduler'), run.n_iter)
    /\ pc' = "epoch"
    /\ UNCHANGED <<runs_dir, setup, last_batch, sample, result, config, len_train_loader, len_valid_loader, error, self, training, ops,
                   run, vstate, valid, fs, evaluation, valid_history, acc_history, saves>>

(* lines 174-178 *)

\* A slip of lines 175-178: the head's final checkpoint is left out
Finalize_ModelOnly ==
    /\ pc = "finalize"
    /\ phases' = Append(phases, <<"FINALIZE", run.epoch_counter>>)
    /\ fs' = TorchSave(fs, "model_final.pth", "model", ops.optimizer_step)
    /\ saves' = Append(saves, <<"model_final.pth", "FINALIZE", run.epoch_counter>>)
    /\ pc' = "done"
    /\ UNCHANGED <<runs_dir, setup, last_batch, sample, result, config, len_train_loader, len_valid_loader, error, self, training, ops,
                   scheduler, run, vstate, valid, scalars, evaluation,
                   valid_history, acc_history>>

Finalize ==
    /\ pc = "finalize"
    /\ phases' = Append(phases, <<"FINALIZE", run.epoch_counter>>)
    /\ fs' = TorchSave(TorchSave(fs, "model_final.pth", "model", ops.optimizer_step),
                       HeadFinalFile(self.name_postfix), "head", ops.optimizer_step)
    /\ saves' = saves \o <<(<<"model_final.pth", "FINALIZE", run.epoch_counter>>),
                           (<<HeadFinalFile(self.name_postfix), "FINALIZE", run.epoch_counter>>)>>
    /\ pc' = "done"
    /\ UNCHANGED <<runs_dir, setup, last_batch, sample, result, config, len_train_loader, len_valid_loader, error, self, training, ops,
                   scheduler, run, vstate, valid, scalars, evaluation,
                   valid_history, acc_history>>

Next ==
    \/ Construct
    \/ TrainSetup
    \/ EpochHead
    \/ TrainBatch
    \/ ValidationSkip
    \/ ValidateEnter
    \/ ValidateBatch
    \/ ValidateReturn
    \/ AfterValidate
    \/ ClassificationSkip
    \/ TestClassification
    \/ ScheduleLR
    \/ Finalize

Spec == Init /\ [][Next]_vars

\* train() under every base model name and every state of the runs folder
SpecSetup == SetupInit /\ [][Next]_vars

(* _step on its own: a constructed trainer is handed one batch *)

StepConfigs ==
    {c \in [jigsaw : FlagValues, rotation : FlagValues, num_jigsaw : {35},
            batch_size : 1..MaxBatchSize, base_model : {"resnet18"},
            epochs : {1}, validate_every_n_epochs : {1}, eval_every_n_epochs : {1},
            log_every_n_steps : {2}] :
        ~PretextSelectionRejected(c.jigsaw, c.rotation)}

StepInit ==
    /\ config \in StepConfigs
    /\ runs_dir = "missing"
    /\ len_train_loader = 1
    /\ len_valid_loader = 1
    /\ pc = "step_call"
    /\ error = "none"
    /\ self = Constructed(config.jigsaw, config.rotation, config.num_jigsaw)
    /\ \E T \in TileCounts :
          \E pred \in [1..config.batch_size -> Labels] :
             \E y \in [1..config.batch_size -> Labels] :
                sample = [B |-> config.batch_size, T |-> T, pred |-> pred, y |-> y]
    /\ NothingRunYet

ForwardStep ==
    /\ pc = "step_call"
    /\ result' = StepResult(self, sample.B, sample.T, sample.pred, sample.y)
    /\ error' = IF result'.error = "none" THEN error ELSE result'.error
    /\ pc' = IF result'.error = "none" THEN "step_returned" ELSE "step_failed"
    /\ UNCHANGED <<runs_dir, setup, last_batch, sample, config, len_train_loader,
                   len_valid_loader, self, training, ops, scheduler, run, vstate, valid,
                   fs, scalars, evaluation, phases, valid_history, acc_history, saves>>

StepNext == ForwardStep

SpecStep == StepInit /\ [][StepNext]_vars

SpecLR == LongInit /\ [][Next]_vars

----------------------------------------------------------------------------
(* Properties *)

Range(seq) == {seq[k] : k \in 1..Len(seq)}

\* Both flags are Python bools
BoolFlags == config.jigsaw \in {0, 1} /\ config.rotation \in {0, 1}

\* The mode a configuration selects
SelectedMode == IF config.jigsaw # 0 THEN "jigsaw" ELSE "rotation"

\* C1: a configuration in which exactly one of pretext.jigsaw and pretext.rotation
\* is True constructs the trainer without an error, with the head of the selected
\* mode: jigsaw 2048->512 per tile, 9*512->4096, 4096->num_jigsaw; rotation
\* 2048->512->128->4.
C1_OneModeConstructs ==
    (BoolFlags /\ config.jigsaw + config.rotation = 1 /\ pc # "new") =>
        /\ error = "none"
        /\ pc # "ctor_failed"
        /\ self.head = IF config.jigsaw = 1
                       THEN [fc1 |-> <<2048, 512>>, fc2 |-> <<9 * 512, 4096>>,
                             classification_fc |-> <<4096, config.num_jigsaw>>]
                       ELSE [fc1 |-> <<2048, 512>>, fc2 |-> <<512, 128>>,
                             classification_fc |-> <<128, 4>>]

\* C2: with both flags True, or both False, construction fails with the
\* configuration error, and nothing has been created when it fails: no metrics
\* writer, no loss criterion, no pretext head.
C2_BothOrNeitherRejected ==
    (BoolFlags /\ config.jigsaw = config.rotation /\ pc # "new") =>
        /\ pc = "ctor_failed"
        /\ error = "ValueError"
        /\ ~self.writer
        /\ ~self.criterion
        /\ ~self.classification_loss
        /\ self.head = NoHead

C2_Witness ==
    /\ pc = "ctor_failed"
    /\ error = "ValueError"
    /\ config.jigsaw = 1
    /\ config.rotation = 1

\* C3: for a non-empty sequence of validation batches, the triple _validate
\* returns (which train() then logs and compares) is the per-batch mean of each
\* metric over all the validation batches, not the last batch's values.
C3_ValidateReturnsMeans ==
    (pc = "valid_returned" /\ len_valid_loader >= 1) =>
        /\ RatioEquals(vstate.loss_contrastive_total, valid[1])
        /\ RatioEquals(vstate.loss_pretext_total, valid[2])
        /\ RatioEquals(vstate.acc_pretext_total, valid[3])

\* The file the selected mode's head is checkpointed to, and its final twin
ModeHeadFile == IF SelectedMode = "jigsaw" THEN "model_jigsaw.pth" ELSE "model_rotation.pth"
ModeHeadFinalFile ==
    IF SelectedMode = "jigsaw" THEN "model_jigsaw_final.pth" ELSE "model_rotation_final.pth"

\* The k-th validation's loss is strictly lower than every earlier one
StrictlyBestLoss(k) == \A j \in 1..(k - 1) : valid_history[k][2] < valid_history[j][2]

\* The lowest validation loss so far, as the best-loss record holds it
LowestLoss ==
    IF valid_history = <<>> THEN PosInf
    ELSE Fin(CHOOSE x \in {h[2] : h \in Range(valid_history)} :
                \A h \in Range(valid_history) : x <= h[2])

\* C4: in every validation epoch the best-by-validation checkpoint (model.pth
\* together with the head's file) is written, and the best-loss record updated, if
\* and only if the epoch's validation contrastive loss (the value train() receives
\* from _validate) is strictly lower than the best seen so far, +infinity at first.
C4_BestLossCheckpoint ==
    /\ \A k \in 1..Len(valid_history) :
          LET e == valid_history[k][1]
          IN /\ (<<"model.pth", "VALIDATE", e>> \in Range(saves)) <=> StrictlyBestLoss(k)
             /\ (<<ModeHeadFile, "VALIDATE", e>> \in Range(saves)) <=> StrictlyBestLoss(k)
    /\ \A w \in Range(saves) :
          w[2] = "VALIDATE" => \E k \in 1..Len(valid_history) : valid_history[k][1] = w[3]
    /\ run.best_valid_loss = LowestLoss

\* Losses 1.2, 0.9, 1.0 over three epochs: written at epochs 1 and 2, not at 3
C4_Witness ==
    /\ valid_history = <<(<<1, 12>>), (<<2, 9>>), (<<3, 10>>)>>
    /\ {w[3] : w \in {v \in Range(saves) : v[2] = "VALIDATE"}} = {1, 2}
    /\ run.best_valid_loss = Fin(9)

\* The weights the model holds at the end of the training batches of an epoch
WeightsOfEpoch(e) == e * len_train_loader

\* The first epoch that reached the lowest validation loss
BestValidEpoch ==
    CHOOSE e \in {h[1] : h \in Range(valid_history)} :
        \E k \in 1..Len(valid_history) :
            /\ valid_history[k][1] = e
            /\ Fin(valid_history[k][2]) = LowestLoss
            /\ StrictlyBestLoss(k)

\* C5: the best-by-validation, best-by-accuracy and final backbone checkpoints
\* are separate files: no file is written by two different phases, and the
\* best-by-validation file holds the model of the epoch with the lowest
\* validation loss.
C5_IndependentSnapshots ==
    /\ \A a, b \in Range(saves) : a[1] = b[1] => a[2] = b[2]
    /\ valid_history # <<>> =>
          fs.files["model.pth"] = Content("model", WeightsOfEpoch(BestValidEpoch))

\* The k-th measured accuracy strictly exceeds every earlier one, and -1
StrictlyBestAcc(k) ==
    /\ acc_history[k][2] > -1
    /\ \A j \in 1..(k - 1) : acc_history[k][2] > acc_history[j][2]

HighestAcc ==
    IF acc_history = <<>> THEN -1
    ELSE CHOOSE x \in {h[2] : h \in Range(acc_history)} :
            \A h \in Range(acc_history) : x >= h[2]

\* C6: in every classification-evaluation epoch a checkpoint is written if and
\* only if the measured accuracy strictly exceeds the best seen so far (-1 at
\* first), and the best-accuracy record is then updated; the phase writes the
\* backbone model only and leaves the head's checkpoint file as it was.
C6_BestAccCheckpoint ==
    /\ [](/\ \A k \in 1..Len(acc_history) :
               (<<"model.pth", "EVAL_CLASSIFICATION", acc_history[k][1]>> \in Range(saves))
                    <=> StrictlyBestAcc(k)
          /\ \A w \in Range(saves) : w[2] = "EVAL_CLASSIFICATION" => w[1] = "model.pth"
          /\ run.best_acc = HighestAcc)
    /\ [][pc = "classification" =>
            /\ \A f \in Files \ {"model.pth"} : fs'.files[f] = fs.files[f]
            /\ (fs'.files["model.pth"] # fs.files["model.pth"] =>
                    fs'.files["model.pth"] = Content("model", ops.optimizer_step))]_vars

\* An evaluation that improves and one that does not, after a validation wrote the head
C6_Witness ==
    /\ Len(acc_history) = 2
    /\ acc_history[1][2] = 70
    /\ acc_history[2][2] = 70
    /\ <<"model.pth", "EVAL_CLASSIFICATION", acc_history[1][1]>> \in Range(saves)
    /\ fs.files[ModeHeadFile].exists
    /\ pc = "schedule"

\* C7: a train() whose epoch loop completes ends by writing model_final.pth and
\* the head's final file, after every per-epoch checkpoint write and whatever
\* the best-seen records are; the checkpoint folder and the configuration copy
\* exist before the first checkpoint write.
C7_FinalCheckpoints ==
    /\ pc = "done" =>
          /\ Len(saves) >= 3
          /\ saves[Len(saves) - 1] = <<"model_final.pth", "FINALIZE", config.epochs>>
          /\ saves[Len(saves)] = <<ModeHeadFinalFile, "FINALIZE", config.epochs>>
          /\ fs.files["model_final.pth"] = Content("model", WeightsOfEpoch(config.epochs))
          /\ fs.files[ModeHeadFinalFile] = Content("head", WeightsOfEpoch(config.epochs))
    /\ \A k \in 1..Len(saves) :
          /\ saves[k][2] = "FINALIZE" => (pc = "done" /\ k >= Len(saves) - 1)
          /\ saves[k][1] # "config.yaml" =>
                /\ k > 1
                /\ saves[1] = <<"config.yaml", "SETUP", 0>>
                /\ fs.folder
                /\ fs.files["config.yaml"].exists
    /\ (\E f \in Files : fs.files[f].exists) => fs.folder

\* A finished run whose last validation was not the best one
C7_Witness ==
    /\ pc = "done"
    /\ Len(valid_history) >= 2
    /\ valid_history[Len(valid_history)][2] > valid_history[1][2]
    /\ fs.files["model_final.pth"].exists
    /\ fs.files[ModeHeadFinalFile].exists

\* The phases of epoch e, in the order claimed
EpochPhases(e) ==
    <<(<<"TRAIN_EPOCH", e>>)>>
    \o (IF e % config.validate_every_n_epochs = 0 THEN <<(<<"VALIDATE", e>>)>> ELSE <<>>)
    \o (IF e % config.eval_every_n_epochs = 0 THEN <<(<<"EVAL_CLASSIFICATION", e>>)>> ELSE <<>>)
    \o <<(<<"SCHEDULE_LR", e>>)>>

RECURSIVE PhasesUpTo(_)
PhasesUpTo(n) == IF n = 0 THEN <<>> ELSE PhasesUpTo(n - 1) \o EpochPhases(n)

ExpectedPhases == PhasesUpTo(config.epochs) \o <<(<<"FINALIZE", config.epochs>>)>>

IsPrefix(p, q) == Len(p) <= Len(q) /\ SubSeq(q, 1, Len(p)) = p

\* C8: for every epoch e in 1..epochs the phases run in the order TRAIN_EPOCH
\* (every training batch consumed, each with zero-grad, forward step, backward
\* and optimizer update), VALIDATE exactly when e mod validate_every_n_epochs = 0,
\* EVAL_CLASSIFICATION exactly when e mod eval_every_n_epochs = 0, then the
\* learning-rate scheduling; FINALIZE runs once, after the last epoch.
C8_PhaseOrder ==
    /\ IsPrefix(phases, ExpectedPhases)
    /\ pc = "done" => phases = ExpectedPhases
    /\ error = "none" => (ops.zero_grad = run.n_iter /\ ops.step = run.n_iter)
    /\ ops.backward = run.n_iter
    /\ ops.optimizer_step = run.n_iter
    /\ (phases # <<>> /\ phases[Len(phases)][1] \notin {"TRAIN_EPOCH", "FINALIZE"}) =>
          run.n_iter = phases[Len(phases)][2] * len_train_loader
    /\ pc = "done" => run.n_iter = config.epochs * len_train_loader

C8_Witness ==
    /\ pc = "done"
    /\ config.epochs = 3
    /\ config.validate_every_n_epochs = 2
    /\ config.eval_every_n_epochs = 1
    /\ len_train_loader = 2
    /\ Len(phases) = 11

\* Epochs whose learning-rate scheduling has run
EpochsScheduled ==
    IF phases = <<>> THEN 0
    ELSE IF phases[Len(phases)][1] \in {"SCHEDULE_LR", "FINALIZE"} THEN phases[Len(phases)][2]
    ELSE phases[Len(phases)][2] - 1

C10_LrLoggedEveryStep ==
    pc = "done" => scalars["cosine_lr_decay"].n = config.epochs * len_train_loader

\* C10, amended: the learning rate is logged once per epoch, when the epoch's
\* scheduling runs, at the global step n_iter: E entries for a run of E epochs.
C10_LrLoggedEveryEpoch ==
    /\ scalars["cosine_lr_decay"].n = EpochsScheduled
    /\ EpochsScheduled >= 1 =>
          scalars["cosine_lr_decay"].step = EpochsScheduled * len_train_loader
    /\ pc = "done" => scalars["cosine_lr_decay"].n = config.epochs

C10_Witness ==
    /\ pc = "done"
    /\ config.epochs = 3
    /\ len_train_loader = 2
    /\ scalars["cosine_lr_decay"].n = 3
    /\ run.n_iter = 6

\* C11: whenever model_final.pth is absent from the runs folder, also when the
\* checkpoints folder exists without the file, _load_weights raises nothing and
\* the model keeps its random initialization; when the file is present its
\* state is loaded into the model.
C11_AbsentWeightsNonFatal ==
    setup.model # "" =>
        /\ runs_dir # "has_final" =>
              (error # "FileNotFoundError" /\ setup.weights = "random")
        /\ runs_dir = "has_final" => setup.weights = "pretrained"

\* C13: a base_model outside the six supported names is rejected when the
\* trainer is constructed, before the metrics writer, the dataset wrapper and
\* the data loaders exist.
C13_UnsupportedModelRejectedAtConstruction ==
    (config.base_model \notin EMBEDDINGS_MODELS /\ pc # "new") =>
        /\ pc = "ctor_failed"
        /\ ~self.writer
        /\ ~setup.wrapper

\* C12: in jigsaw mode, for a batch whose tile count T differs from 9, below or
\* above, _step fails with an error and returns no metrics.
C12_WrongTileCountFails ==
    (pc # "step_call" /\ Truthy(self.jigsaw) /\ sample.T # n_jigsaw) =>
        /\ pc = "step_failed"
        /\ result.error # "none"

\* C14: in rotation mode, for every batch size B >= 1 with one image per sample
\* and labels in 0..3, _step returns, its final logits have shape [B, 4] and its
\* loss and accuracy are computed over exactly B predictions.
C14_RotationLogitsPerSample ==
    (pc # "step_call" /\ ~Truthy(self.jigsaw) /\ Truthy(self.rotation) /\ sample.T = 1) =>
        /\ pc = "step_returned"
        /\ result.logits = <<sample.B, 4>>
        /\ result.n_pred = sample.B

\* The samples of the batch whose arg-max index equals their label
ExactMatches == {k \in 1..sample.B : sample.pred[k] = sample.y[k]}

\* C16: the accuracy _step returns is the number of samples whose arg-max index
\* equals the label, divided by the batch size, and so lies in [0, 1].
C16_AccuracyIsMatchFraction ==
    pc = "step_returned" =>
        /\ result.acc = Ratio(Cardinality(ExactMatches), sample.B)
        /\ 0 <= result.acc[1]
        /\ result.acc[1] <= result.acc[2]
        /\ result.acc[2] > 0

C16_Witness ==
    /\ pc = "step_returned"
    /\ sample.B = 2
    /\ sample.pred = <<3, 1>>
    /\ sample.y = <<3, 2>>
    /\ result.acc = Ratio(1, 2)

\* C15: for every training batch the backpropagated loss is loss_contrastive +
\* 0.3 * loss_pretext of that batch's own forward step; the weight 0.3 is the
\* same in both pretext modes and is never changed during a run. (Losses and
\* the weight are in tenths, the combined loss in hundredths.)
C15_CombinedLossWeight ==
    /\ [](/\ pc \notin {"new", "ctor_failed"} => self.loss_lambda = 3
          /\ ops.backward > 0 =>
                last_batch.loss =
                    10 * last_batch.loss_contrastive + 3 * last_batch.loss_pretext)
    /\ [][pc = "train_batch" /\ ops'.backward # ops.backward =>
            /\ \E outcome \in StepOutcomes :
                  /\ last_batch'.loss_contrastive = outcome[1]
                  /\ last_batch'.loss_pretext = outcome[2]
                  /\ last_batch'.acc_pretext = outcome[3]
            /\ self' = self]_vars

\* A second epoch's batch in rotation mode: 0.9 + 0.3 * 0.5 = 1.05
C15_Witness ==
    /\ SelectedMode = "rotation"
    /\ run.epoch_counter = 2
    /\ ops.backward = 3
    /\ last_batch.loss_contrastive = 9
    /\ last_batch.loss_pretext = 5
    /\ last_batch.loss = 105

\* C17: at the start of every training batch of every epoch the embedding model
\* and the three head modules fc1, fc2 and classification_fc are in training
\* mode, whatever validations and classification evaluations ran in earlier
\* epochs.
C17_TrainingModeRestored ==
    (pc = "train_batch" /\ run.i < len_train_loader) =>
        \A m \in Modules : training[m]

\* C18: the classification evaluation fits the linear evaluator on the training
\* embeddings with the training labels and scores it on the test embeddings
\* with the test labels.
C18_EvaluatorFitOnTrain ==
    evaluation # <<>> =>
        evaluation = <<"train_data", "train_labels", "test_data", "test_labels">>

\* C19: throughout train(), best_valid_loss never increases and is the minimum
\* of the validation losses returned so far (+infinity before the first);
\* best_acc never decreases and is the maximum of the accuracies measured so far
\* (-1 before the first); n_iter is the number of training batches processed;
\* valid_n_iter and test_n_iter are the numbers of validations and evaluations
\* completed.
C19_RunStateInvariants ==
    /\ [](pc \notin {"new", "ctor_failed", "constructed"} =>
            /\ run.best_valid_loss = LowestLoss
            /\ run.best_acc = HighestAcc
            /\ (acc_history = <<>> => run.best_acc = InitialBestAcc)
            /\ run.n_iter = ops.optimizer_step
            /\ run.valid_n_iter = Len(valid_history)
            /\ run.test_n_iter = Len(acc_history))
    /\ [][pc \notin {"new", "ctor_failed", "constructed"} =>
            /\ ~Greater(run'.best_valid_loss, run.best_valid_loss)
            /\ run'.best_acc >= run.best_acc
            /\ run'.n_iter >= run.n_iter]_vars

\* Two validations and two evaluations: the records keep the better value when
\* the later one is worse
C19_Witness ==
    /\ pc = "done"
    /\ run.n_iter = 4
    /\ run.valid_n_iter = 2
    /\ run.test_n_iter = 2
    /\ valid_history[1][2] = 9
    /\ valid_history[2][2] = 12
    /\ run.best_valid_loss = Fin(9)
    /\ acc_history[1][2] = 70
    /\ acc_history[2][2] = 50
    /\ run.best_acc = 70

====
